---- MODULE Spec2Model ----
(***************************************************************************)
(* Model of late-accounts.py: the batch pipeline that enumerates active    *)
(* PLCs from the Companies House search endpoint, fetches each company's   *)
(* profile under throttling, classifies late accounts / confirmation       *)
(* statements, checkpoints the results as JSON files and renders reports.  *)
(*                                                                         *)
(* A behaviour is one run of the script (one process), started on a disk   *)
(* that holds no checkpoints, damaged checkpoints, or the checkpoints an    *)
(* earlier run has written.  Python values that can be None or a list are  *)
(* wrapped as [py |-> "None"] / [py |-> "list", v |-> <<...>>].            *)
(*                                                                         *)
(* Spec is the whole script.  SpecRoundTrip runs save_to_file and          *)
(* load_from_file on arbitrary collections, SpecDays runs find_days_late   *)
(* on due dates and run dates around month, year and leap-day boundaries.  *)
(***************************************************************************)
EXTENDS Integers, Sequences, FiniteSets, TLC

\* ---------------------------------------------------------------- bounds
\* number of companies in the registry, and so the largest population
MaxPop == 2
\* the checkpoints of an earlier run are up to MaxDays days old
MaxDays == 1

\* ------------------------------------------------------ program constants
API_RETRY_WAIT == 30
MAX_API_RETRIES == 50

PLC_LIST_FILE == "active_plcs.json"
LATE_ACCOUNTS_LIST_FILE == "late_plcs.json"
LATE_CONFIRMATIONS_LIST_FILE == "late_confirmations_plcs.json"
ACCOUNTS_HTML_EXPORT_FILE == "late_plc_table.html"
CONFIRMATIONS_HTML_EXPORT_FILE == "late_confirmations_plcs_table.html"

FileNames == {PLC_LIST_FILE, LATE_ACCOUNTS_LIST_FILE, LATE_CONFIRMATIONS_LIST_FILE}
HtmlNames == {ACCOUNTS_HTML_EXPORT_FILE, CONFIRMATIONS_HTML_EXPORT_FILE}

\* ---------------------------------------------------------- Python values
None == [py |-> "None"]
PyList(s) == [py |-> "list", v |-> s]
Unbound == [py |-> "unbound"]

IsList(x) == x.py = "list"

\* ------------------------------------------------------------------ dates
\* A date string 'YYYY-MM-DD' is the triple <<Y, M, D>> of its fields.
IsLeap(y) == (y % 4 = 0) /\ ((y % 100 # 0) \/ (y % 400 = 0))

DaysInMonth(y, m) ==
    IF m = 2 THEN (IF IsLeap(y) THEN 29 ELSE 28)
    ELSE IF m \in {4, 6, 9, 11} THEN 30 ELSE 31

RECURSIVE DaysBeforeMonth(_, _)
DaysBeforeMonth(y, m) ==
    IF m <= 1 THEN 0 ELSE DaysBeforeMonth(y, m - 1) + DaysInMonth(y, m - 1)

DaysBeforeYear(y) ==
    (y - 1) * 365 + ((y - 1) \div 4) - ((y - 1) \div 100) + ((y - 1) \div 400)

\* datetime.strptime(s, '%Y-%m-%d') accepts s iff it names a calendar day
ValidDate(s) ==
    /\ s[1] \in 1..9999
    /\ s[2] \in 1..12
    /\ s[3] \in 1..DaysInMonth(s[1], s[2])

\* date.toordinal()
ToOrdinal(s) == DaysBeforeYear(s[1]) + DaysBeforeMonth(s[1], s[2]) + s[3]

\* the day after a date
NextDay(s) ==
    IF s[3] < DaysInMonth(s[1], s[2]) THEN <<s[1], s[2], s[3] + 1>>
    ELSE IF s[2] < 12 THEN <<s[1], s[2] + 1, 1>>
    ELSE <<s[1] + 1, 1, 1>>

\* the day before a date
PrevDay(s) ==
    IF s[3] > 1 THEN <<s[1], s[2], s[3] - 1>>
    ELSE IF s[2] > 1 THEN <<s[1], s[2] - 1, DaysInMonth(s[1], s[2] - 1)>>
    ELSE <<s[1] - 1, 12, 31>>

\* a difference that is never negative
find_days_late_Clamped(due_date, now) ==
    IF ToOrdinal(now) < ToOrdinal(due_date) THEN 0 ELSE ToOrdinal(now) - ToOrdinal(due_date)

\* find_days_late(due_date), with datetime.today().date() = now
find_days_late(due_date, now) == ToOrdinal(now) - ToOrdinal(due_date)

\* ------------------------------------------------------------- JSON files
\* A file is absent, or holds a text: a sequence of tokens.
NoFile == [exists |-> FALSE]
FileOf(text) == [exists |-> TRUE, text |-> text]

TokNull == [tok |-> "null"]
TokOpen == [tok |-> "["]
TokClose == [tok |-> "]"]
TokObj(o) == [tok |-> "object", obj |-> o]

RECURSIVE Digits(_)
\* the decimal digits of a natural number
Digits(n) == IF n < 10 THEN <<n>> ELSE Append(Digits(n \div 10), n % 10)

RECURSIVE FromDigits(_)
\* int() of a string of decimal digits
FromDigits(d) ==
    IF d = <<>> THEN 0 ELSE 10 * FromDigits(SubSeq(d, 1, Len(d) - 1)) + d[Len(d)]

\* the JSON text of an int: a minus sign if negative, then the digits
json_int(n) == [json |-> "number", minus |-> n < 0, digits |-> Digits(IF n < 0 THEN 0 - n ELSE n)]

\* the JSON text of a str: the quoted characters
json_str(str) == [json |-> "string", chars |-> str]

\* the keys of the program's dicts whose value is an int; the others hold a str
IntFields == {"days_late"}

\* json.dump of one value of a dict, by the value's type
encode_member(key, v) == IF key \in IntFields THEN json_int(v) ELSE json_str(v)

\* a decoder that drops the sign of a number
decode_member_Unsigned(t) ==
    IF t.json = "number" THEN FromDigits(t.digits) ELSE t.chars

\* json.load of one value of an object
decode_member(t) ==
    IF t.json = "number"
    THEN (IF t.minus THEN 0 - FromDigits(t.digits) ELSE FromDigits(t.digits))
    ELSE t.chars

\* json.dump of a dict: its keys with their encoded values
json_object(o) == [key \in DOMAIN o |-> encode_member(key, o[key])]

\* json.load of an object: a dict
json_object_value(m) == [key \in DOMAIN m |-> decode_member(m[key])]

\* json.dump(value, file, indent=4): the text written for a Python value
json_dump(value) ==
    IF value.py = "None" THEN <<TokNull>>
    ELSE <<TokOpen>> \o [k \in 1..Len(value.v) |-> TokObj(json_object(value.v[k]))] \o <<TokClose>>

\* does the text parse as JSON (null, or an array of objects)
json_valid(text) ==
    \/ text = <<TokNull>>
    \/ /\ Len(text) >= 2
       /\ text[1] = TokOpen
       /\ text[Len(text)] = TokClose
       /\ \A k \in 2..(Len(text) - 1) : text[k].tok = "object"

\* json.load(file) of a text that parses
json_load(text) ==
    IF text = <<TokNull>> THEN None
    ELSE PyList([k \in 1..(Len(text) - 2) |-> json_object_value(text[k + 1].obj)])

\* a loader that gives None for a file it cannot read
load_from_file_NoneOnError(file) ==
    IF ~file.exists THEN None
    ELSE IF ~json_valid(file.text) THEN None
    ELSE json_load(file.text)

\* load_from_file(filename): FileNotFoundError and JSONDecodeError give []
load_from_file(file) ==
    IF ~file.exists THEN PyList(<<>>)
    ELSE IF ~json_valid(file.text) THEN PyList(<<>>)
    ELSE json_load(file.text)

\* a save that keeps the records the file holds and adds the new ones
save_to_file_Merge(fs, companies, filename) ==
    IF IsList(companies) /\ IsList(load_from_file(fs[filename]))
    THEN [fs EXCEPT ![filename] =
            FileOf(json_dump(PyList(load_from_file(fs[filename]).v \o companies.v)))]
    ELSE [fs EXCEPT ![filename] = FileOf(json_dump(companies))]

\* save_to_file(companies, filename): open(filename, 'w') replaces the file
save_to_file(fs, companies, filename) ==
    [fs EXCEPT ![filename] = FileOf(json_dump(companies))]

\* ------------------------------------------------- the registry's companies
CompanyNumbers == <<"00000001", "00000002", "00000003", "00000004">>
CompanyNames == <<"Foo PLC", "bar plc", "Baz PLC", "Qux PLC">>

\* one item of the search response's 'items' array
CompanyRef(n) == [company_number |-> CompanyNumbers[n], company_name |-> CompanyNames[n]]

\* the first n companies in the registry's order, and in the opposite order
Ascending(n) == [k \in 1..n |-> CompanyRef(k)]
Descending(n) == [k \in 1..n |-> CompanyRef(MaxPop + 1 - k)]

\* the populations the search endpoint can return
Populations == {Ascending(n) : n \in 0..MaxPop} \cup {Descending(n) : n \in 0..MaxPop}

\* ------------------------------------------------- search endpoint responses
SearchErrorStatuses == {429, 500}

\* body kinds of a 200 search response: an object with 'items', an object
\* without it, or a body that is not JSON
SearchResponses ==
    {[status_code |-> 200, body |-> "items", items |-> p] : p \in Populations}
    \cup {[status_code |-> 200, body |-> "no_items", items |-> <<>>],
          [status_code |-> 200, body |-> "not_json", items |-> <<>>]}
    \cup {[status_code |-> c, body |-> "error", items |-> <<>>] : c \in SearchErrorStatuses}

\* ------------------------------------------------ profile endpoint responses
AccountsDue == <<2024, 2, 20>>
LongAccountsDue == <<2024, 1, 31>>
ConfirmationDue == <<2023, 12, 31>>
FutureDue == <<2024, 9, 30>>
RunDay == <<2024, 2, 29>>

\* the bodies the profile endpoint can send with a 200, by number
BodyIds == 1..8

\* bodies 1..7 are JSON objects; body 8 is text that is not JSON
BodyIsJson(b) == b # 8

\* response.json() of a JSON body
BodyJson(b) ==
    CASE b = 1 -> [accounts |-> [next_accounts |-> [due_on |-> AccountsDue, overdue |-> TRUE]],
                   confirmation_statement |-> [next_due |-> ConfirmationDue, overdue |-> TRUE]]
      [] b = 2 -> [accounts |-> [next_accounts |-> [due_on |-> FutureDue, overdue |-> FALSE]],
                   confirmation_statement |-> [next_due |-> FutureDue, overdue |-> FALSE]]
      [] b = 3 -> [accounts |-> [accounting_reference_date |-> [day |-> 31, month |-> 12]]]
      [] b = 4 -> [accounts |-> [next_accounts |-> [due_on |-> LongAccountsDue, overdue |-> TRUE]]]
      [] b = 5 -> [accounts |-> [accounting_reference_date |-> [day |-> 31, month |-> 12]],
                   confirmation_statement |-> [next_due |-> ConfirmationDue, overdue |-> TRUE]]
      [] b = 6 -> [company_status |-> "dissolved"]
      [] b = 7 -> [sic_description |-> "accounts and auditing"]

\* the keys and string values that occur in response.text
BodyStrings(b) ==
    CASE b = 1 -> {"accounts", "next_accounts", "due_on", "overdue", "confirmation_statement", "next_due"}
      [] b = 2 -> {"accounts", "next_accounts", "due_on", "overdue", "confirmation_statement", "next_due"}
      [] b = 3 -> {"accounts", "accounting_reference_date", "day", "month"}
      [] b = 4 -> {"accounts", "next_accounts", "due_on", "overdue"}
      [] b = 5 -> {"accounts", "accounting_reference_date", "day", "month", "confirmation_statement",
                   "next_due", "overdue"}
      [] b = 6 -> {"company_status", "dissolved"}
      [] b = 7 -> {"sic_description", "accounts and auditing"}
      [] b = 8 -> {"<html>", "accounts service unavailable"}

\* the strings above that have "accounts" as a substring
HasAccountsSubstring(str) ==
    str \in {"accounts", "next_accounts", "accounts and auditing", "accounts service unavailable"}

\* "accounts" in response.text
AccountsInText(b) == \E str \in BodyStrings(b) : HasAccountsSubstring(str)

ProfileStatuses == {200, 404, 429, 502}

\* --------------------------------------------------------- issuer name lists
\* listed_companies: one list of names per source in listed_sources
listed_companies == <<<<"Quux PLC", "Bar PLC">>, <<"Foo PLC", "Baz  PLC">>>>

\* ------------------------------------------------------------------ state
VARIABLES
    GENERATE_PLC_LIST,        \* run-mode flag: fetch a fresh population
    ANALYSE_PLC_LIST,         \* run-mode flag: fetch fresh filings
    pc,                       \* position of the running script, or how it ended
    files,                    \* the checkpoint files on disk
    html,                     \* the documents this run has rendered
    search_response,          \* get_active_plcs: the response of the search request
    active_plcs,              \* __main__: the population
    late_accounts,            \* __main__: the late-accounts collection
    late_confirmations,       \* __main__: the late-confirmations collection
    late_accounts_list,       \* get_late_plcs: accumulator
    late_confirmations_list,  \* get_late_plcs: accumulator
    i,                        \* get_late_plcs: position in the population (from 1)
    retries,                  \* get_company_profile: throttle counter
    response,                 \* get_company_profile: the last response
    profile,                  \* get_late_plcs: body number of the returned profile (0: none)
    today,                    \* the clock's date
    files0,                   \* history: the checkpoint files when the run started
    reqs,                     \* history: requests made by the current get_company_profile call
    waits,                    \* history: sleeps made by the current get_company_profile call
    slept,                    \* history: seconds slept by the current get_company_profile call
    seen,                     \* history: status codes received by the current call
    search_reqs,              \* history: search requests made by this run
    profile_requested,        \* history: has this run made a profile request
    requested_for,            \* history: population position of this run's last profile request
    fetched,                  \* history: positions whose profile was returned, in order
    writes,                   \* history: the files this run has written, in order
    fatal                     \* history: why the run ended early ("" if it has not)

vars == <<GENERATE_PLC_LIST, ANALYSE_PLC_LIST, pc, files, html, search_response, active_plcs, late_accounts,
          late_confirmations, late_accounts_list, late_confirmations_list, i, retries,
          response, profile, today, files0, reqs, waits, slept, seen, search_reqs,
          profile_requested, requested_for, fetched, writes, fatal>>

mode == <<GENERATE_PLC_LIST, ANALYSE_PLC_LIST>>
disk == <<files, html>>
mainVars == <<search_response, active_plcs, late_accounts, late_confirmations>>
loopVars == <<late_accounts_list, late_confirmations_list, i, profile>>
callVars == <<retries, response, reqs, waits, slept, seen>>
runHistory == <<search_reqs, profile_requested, requested_for, fetched>>

NoResponse == [status_code |-> 0, body |-> 0]
NoSearchResponse == [status_code |-> 0, body |-> "none", items |-> <<>>]
NoReport == [written |-> FALSE]

Ended == {"done", "exit", "crash"}

\* ------------------------------------------------------ late filing records
CompanyLink(plc) ==
    <<"https://find-and-update.company-information.service.gov.uk/company/", plc.company_number>>

\* the record built for a late obligation
LateRecord(plc, due, now) ==
    [name |-> plc.company_name,
     link |-> CompanyLink(plc),
     due_date |-> due,
     days_late |-> find_days_late(due, now)]

\* ------------------------------------------------- the disk before the run
\* a checkpoint that is not valid JSON (cut short, or edited by hand)
TruncatedText == <<TokOpen>>

RECURSIVE DaysAgo(_, _)
\* the date n days before a date
DaysAgo(day, n) == IF n = 0 THEN day ELSE DaysAgo(PrevDay(day), n - 1)

\* what a run n days ago has left: the registry listed the last company
\* before company 1, the former had late accounts (body 4) and the latter a
\* late confirmation statement (body 5)
OldPopulation == <<CompanyRef(MaxPop), CompanyRef(1)>>
OldLateAccounts(n) == <<LateRecord(CompanyRef(MaxPop), LongAccountsDue, DaysAgo(RunDay, n))>>
OldLateConfirmations(n) == <<LateRecord(CompanyRef(1), ConfirmationDue, DaysAgo(RunDay, n))>>

OldDisk(n) ==
    save_to_file(
        save_to_file(
            save_to_file([f \in FileNames |-> NoFile], PyList(OldPopulation), PLC_LIST_FILE),
            PyList(OldLateAccounts(n)), LATE_ACCOUNTS_LIST_FILE),
        PyList(OldLateConfirmations(n)), LATE_CONFIRMATIONS_LIST_FILE)

\* what a fresh-population run whose search request failed has made of it
FailedSearchDisk == save_to_file(OldDisk(1), None, PLC_LIST_FILE)

InitialDisks ==
    {[f \in FileNames |-> NoFile], [f \in FileNames |-> FileOf(TruncatedText)], FailedSearchDisk}
    \cup {OldDisk(n) : n \in 1..MaxDays}

\* the variables of a process that has just started
FreshProcess ==
    /\ pc = "population"
    /\ search_response = NoSearchResponse
    /\ active_plcs = Unbound
    /\ late_accounts = Unbound
    /\ late_confirmations = Unbound
    /\ late_accounts_list = <<>>
    /\ late_confirmations_list = <<>>
    /\ i = 0
    /\ retries = 0
    /\ response = NoResponse
    /\ profile = 0
    /\ reqs = 0
    /\ waits = 0
    /\ slept = 0
    /\ seen = {}
    /\ search_reqs = 0
    /\ profile_requested = FALSE
    /\ requested_for = 0
    /\ fetched = <<>>
    /\ writes = <<>>
    /\ fatal = ""

Init ==
    /\ GENERATE_PLC_LIST \in BOOLEAN
    /\ ANALYSE_PLC_LIST \in BOOLEAN
    /\ files \in InitialDisks
    /\ html = [h \in HtmlNames |-> NoReport]
    /\ today = RunDay
    /\ files0 = files
    /\ FreshProcess

\* exit(1), and an exception nobody catches
Exit(why) == pc' = "exit" /\ fatal' = why
Crash(why) == pc' = "crash" /\ fatal' = why

\* --------------------------------------------------------- get_active_plcs
\* an enumerator that returns its empty list when the status is not 200
get_active_plcs_EmptyOnError(resp) ==
    IF resp.status_code = 200 /\ resp.body = "items" THEN PyList(resp.items) ELSE PyList(<<>>)

\* get_active_plcs(): what the function returns for a response it could parse
get_active_plcs(resp) ==
    IF resp.status_code # 200 THEN None
    ELSE IF resp.body = "items" THEN PyList(resp.items)
    ELSE PyList(<<>>)

\* a fresh-population stage that forgets to write the checkpoint
GeneratePlcList_NoSave ==
    /\ pc = "population"
    /\ GENERATE_PLC_LIST
    /\ \E resp \in SearchResponses :
          /\ search_response' = resp
          /\ search_reqs' = search_reqs + 1
          /\ IF resp.status_code = 200 /\ resp.body = "not_json"
             THEN /\ Crash("JSONDecodeError")
                  /\ UNCHANGED active_plcs
             ELSE /\ active_plcs' = get_active_plcs(resp)
                  /\ pc' = "filings"
                  /\ UNCHANGED fatal
    /\ UNCHANGED <<mode, disk, writes, late_accounts, late_confirmations, loopVars, callVars,
                   today, files0, profile_requested, requested_for, fetched>>

\* __main__, GENERATE_PLC_LIST: the search request, then save_to_file
GeneratePlcList ==
    /\ pc = "population"
    /\ GENERATE_PLC_LIST
    /\ \E resp \in SearchResponses :
          /\ search_response' = resp
          /\ search_reqs' = search_reqs + 1
          /\ IF resp.status_code = 200 /\ resp.body = "not_json"
             THEN /\ Crash("JSONDecodeError")
                  /\ UNCHANGED <<active_plcs, files, writes>>
             ELSE /\ active_plcs' = get_active_plcs(resp)
                  /\ files' = save_to_file(files, get_active_plcs(resp), PLC_LIST_FILE)
                  /\ writes' = Append(writes, PLC_LIST_FILE)
                  /\ pc' = "filings"
                  /\ UNCHANGED fatal
    /\ UNCHANGED <<mode, html, late_accounts, late_confirmations, loopVars, callVars,
                   today, files0, profile_requested, requested_for, fetched>>

\* requests.get raises in get_active_plcs: the registry cannot be reached
SearchConnectionError ==
    /\ pc = "population"
    /\ GENERATE_PLC_LIST
    /\ search_reqs' = search_reqs + 1
    /\ Crash("ConnectionError")
    /\ UNCHANGED <<mode, disk, mainVars, loopVars, callVars, today, files0,
                   profile_requested, requested_for, fetched, writes>>

\* __main__, not GENERATE_PLC_LIST: load the population checkpoint
LoadPlcList ==
    /\ pc = "population"
    /\ ~GENERATE_PLC_LIST
    /\ active_plcs' = load_from_file(files[PLC_LIST_FILE])
    /\ pc' = "filings"
    /\ UNCHANGED <<mode, disk, search_response, late_accounts, late_confirmations, loopVars, callVars,
                   today, files0, runHistory, writes, fatal>>

\* ------------------------------------------------------------ get_late_plcs
\* len(x) raises TypeError unless x is a list
HasLen(x) == IsList(x)

\* __main__, ANALYSE_PLC_LIST: log the population size, enter get_late_plcs
AnalyseBegin ==
    /\ pc = "filings"
    /\ ANALYSE_PLC_LIST
    /\ IF HasLen(active_plcs)
       THEN /\ late_accounts_list' = <<>>
            /\ late_confirmations_list' = <<>>
            /\ i' = 1
            /\ pc' = "loop"
            /\ UNCHANGED fatal
       ELSE /\ Crash("TypeError")
            /\ UNCHANGED <<late_accounts_list, late_confirmations_list, i>>
    /\ UNCHANGED <<mode, disk, mainVars, profile, callVars, today, files0, runHistory, writes>>

\* a loop that leaves out the last company
LoopHasNext_SkipLast(k, n) == k < n

\* for i, plc in enumerate(list_of_active_plcs): is there a k-th company
LoopHasNext(k, n) == k <= n

\* a fetcher whose throttle counter is shared by all calls
LoopNext_KeepCounter ==
    /\ pc = "loop"
    /\ LoopHasNext(i, Len(active_plcs.v))
    /\ pc' = "request"
    /\ UNCHANGED <<mode, disk, mainVars, loopVars, callVars, today, files0, runHistory, writes, fatal>>

\* get_late_plcs: the next company of the loop; call get_company_profile
LoopNext ==
    /\ pc = "loop"
    /\ LoopHasNext(i, Len(active_plcs.v))
    /\ retries' = 0
    /\ pc' = "request"
    /\ UNCHANGED <<mode, disk, mainVars, loopVars, response, reqs, waits, slept, seen,
                   today, files0, runHistory, writes, fatal>>

\* ------------------------------------------------------ get_company_profile
\* a loop that runs once more than the bound
MayRetry_OffByOne(r) == r <= MAX_API_RETRIES

\* the while condition
MayRetry(r) == r < MAX_API_RETRIES

\* the statuses that are retried
IsThrottled(status) == status = 502 \/ status = 429

\* a fetcher that retries on 429 only and treats 502 as any other status
profile_outcome_502Fatal(status, b) ==
    IF status = 200
    THEN IF AccountsInText(b)
         THEN (IF BodyIsJson(b) THEN "return" ELSE "raise")
         ELSE "exit_format"
    ELSE IF status = 429 THEN "retry" ELSE "exit_status"

\* a fetcher that retries a 200 response of unexpected shape
profile_outcome_RetryFormat(status, b) ==
    IF status = 200
    THEN IF AccountsInText(b)
         THEN (IF BodyIsJson(b) THEN "return" ELSE "raise")
         ELSE "retry"
    ELSE IF IsThrottled(status) THEN "retry" ELSE "exit_status"

\* a fetcher that retries every status other than 200
profile_outcome_RetryAny(status, b) ==
    IF status = 200
    THEN IF AccountsInText(b)
         THEN (IF BodyIsJson(b) THEN "return" ELSE "raise")
         ELSE "exit_format"
    ELSE "retry"

\* the if / elif / else of the loop body: what a response leads to
profile_outcome(status, b) ==
    IF status = 200
    THEN IF AccountsInText(b)
         THEN (IF BodyIsJson(b) THEN "return" ELSE "raise")
         ELSE "exit_format"
    ELSE IF IsThrottled(status) THEN "retry" ELSE "exit_status"

\* history kept for every request of the current call
Requested(resp) ==
    /\ response' = resp
    /\ reqs' = reqs + 1
    /\ seen' = seen \cup {resp.status_code}
    /\ profile_requested' = TRUE
    /\ requested_for' = i

\* one pass of the while loop: the request and what the response leads to
ProfileRequest ==
    /\ pc = "request"
    /\ MayRetry(retries)
    /\ \E status \in ProfileStatuses :
       \E b \in (IF status = 200 THEN BodyIds ELSE {0}) :
          /\ Requested([status_code |-> status, body |-> b])
          /\ CASE profile_outcome(status, b) = "return" ->
                    /\ profile' = b
                    /\ fetched' = Append(fetched, i)
                    /\ pc' = "classify"
                    /\ UNCHANGED <<retries, fatal>>
               [] profile_outcome(status, b) = "raise" ->
                    /\ Crash("JSONDecodeError")
                    /\ UNCHANGED <<retries, profile, fetched>>
               [] profile_outcome(status, b) = "exit_format" ->
                    /\ Exit("unexpected response format")
                    /\ UNCHANGED <<retries, profile, fetched>>
               [] profile_outcome(status, b) = "retry" ->
                    /\ retries' = retries + 1
                    /\ pc' = "sleep"
                    /\ UNCHANGED <<profile, fetched, fatal>>
               [] profile_outcome(status, b) = "exit_status" ->
                    /\ Exit("status")
                    /\ UNCHANGED <<retries, profile, fetched>>
    /\ UNCHANGED <<mode, disk, mainVars, late_accounts_list, late_confirmations_list, i,
                   waits, slept, today, files0, search_reqs, writes>>

\* requests.get raises in get_company_profile
ProfileConnectionError ==
    /\ pc = "request"
    /\ MayRetry(retries)
    /\ reqs' = reqs + 1
    /\ profile_requested' = TRUE
    /\ requested_for' = i
    /\ Crash("ConnectionError")
    /\ UNCHANGED <<mode, disk, mainVars, loopVars, retries, response, waits, slept, seen,
                   today, files0, search_reqs, fetched, writes>>

\* a fetcher that retries at once
Sleep_NoWait ==
    /\ pc = "sleep"
    /\ pc' = "request"
    /\ UNCHANGED <<mode, disk, mainVars, loopVars, callVars, today, files0, runHistory, writes, fatal>>

\* time.sleep(API_RETRY_WAIT) after a throttled response
Sleep ==
    /\ pc = "sleep"
    /\ waits' = waits + 1
    /\ slept' = slept + API_RETRY_WAIT
    /\ pc' = "request"
    /\ UNCHANGED <<mode, disk, mainVars, loopVars, retries, response, reqs, seen,
                   today, files0, runHistory, writes, fatal>>

\* a fetcher that has the records gathered so far saved before it exits
RetriesExhausted_Flush ==
    /\ pc = "request"
    /\ ~MayRetry(retries)
    /\ files' = save_to_file(
                    save_to_file(files, PyList(late_accounts_list), LATE_ACCOUNTS_LIST_FILE),
                    PyList(late_confirmations_list), LATE_CONFIRMATIONS_LIST_FILE)
    /\ Exit("retries")
    /\ UNCHANGED <<mode, html, mainVars, loopVars, callVars, today, files0, runHistory, writes>>

\* the while loop ends: the failure is logged and the process exits
RetriesExhausted ==
    /\ pc = "request"
    /\ ~MayRetry(retries)
    /\ Exit("retries")
    /\ UNCHANGED <<mode, disk, mainVars, loopVars, callVars, today, files0, runHistory, writes>>

\* ---------------------------------------------------- the loop body's rest
\* an accumulator that keeps the later record first
list_append_ByLateness(list, data) ==
    IF list # <<>> /\ data.days_late > Head(list).days_late
    THEN <<data>> \o list
    ELSE Append(list, data)

\* list.append(data)
list_append(list, data) == Append(list, data)

\* is an accounts record appended for this profile
AccountsLate(p) ==
    /\ "next_accounts" \in DOMAIN p.accounts
    /\ p.accounts.next_accounts.overdue

\* a classifier that looks at the confirmation statement only of companies
\* with an accounts obligation
ConfirmationLate_Nested(p) ==
    /\ "next_accounts" \in DOMAIN p.accounts
    /\ "confirmation_statement" \in DOMAIN p
    /\ p.confirmation_statement.overdue

\* is a confirmation record appended for this profile
ConfirmationLate(p) ==
    /\ "confirmation_statement" \in DOMAIN p
    /\ p.confirmation_statement.overdue

\* get_late_plcs, after get_company_profile has returned: classify the profile.
\* When the loop body ends, the profile and the history of the finished call
\* are dropped; the throttle counter keeps its value until the next call
\* sets it.
Classify ==
    /\ pc = "classify"
    /\ LET p == BodyJson(profile)
           plc == active_plcs.v[i]
       IN  IF "accounts" \notin DOMAIN p
           THEN /\ Crash("KeyError")
                /\ UNCHANGED <<loopVars, callVars>>
           ELSE /\ late_accounts_list' =
                      IF AccountsLate(p)
                      THEN list_append(late_accounts_list,
                                       LateRecord(plc, p.accounts.next_accounts.due_on, today))
                      ELSE late_accounts_list
                /\ late_confirmations_list' =
                      IF ConfirmationLate(p)
                      THEN list_append(late_confirmations_list,
                                       LateRecord(plc, p.confirmation_statement.next_due, today))
                      ELSE late_confirmations_list
                /\ i' = i + 1
                /\ profile' = 0
                /\ response' = NoResponse
                /\ reqs' = 0
                /\ waits' = 0
                /\ slept' = 0
                /\ seen' = {}
                /\ pc' = "loop"
                /\ UNCHANGED fatal
    /\ UNCHANGED <<mode, disk, mainVars, retries, today, files0, runHistory, writes>>

\* get_late_plcs returns, and with it the last call's throttle counter is
\* gone; __main__ saves the two collections
AnalyseDone ==
    /\ pc = "loop"
    /\ ~LoopHasNext(i, Len(active_plcs.v))
    /\ late_accounts' = PyList(late_accounts_list)
    /\ late_confirmations' = PyList(late_confirmations_list)
    /\ files' = save_to_file(
                    save_to_file(files, PyList(late_accounts_list), LATE_ACCOUNTS_LIST_FILE),
                    PyList(late_confirmations_list), LATE_CONFIRMATIONS_LIST_FILE)
    /\ writes' = writes \o <<LATE_ACCOUNTS_LIST_FILE, LATE_CONFIRMATIONS_LIST_FILE>>
    /\ retries' = 0
    /\ pc' = "report"
    /\ UNCHANGED <<mode, html, search_response, active_plcs, loopVars, response, reqs, waits, slept,
                   seen, today, files0, runHistory, fatal>>

\* the days_late of loaded records brought up to date
Rederived(x) ==
    IF IsList(x)
    THEN PyList([k \in 1..Len(x.v) |->
                    [x.v[k] EXCEPT !.days_late = find_days_late(x.v[k].due_date, today)]])
    ELSE x

\* a cached-filings stage that recomputes days_late for the run date
LoadLate_Rederive ==
    /\ pc = "filings"
    /\ ~ANALYSE_PLC_LIST
    /\ late_accounts' = Rederived(load_from_file(files[LATE_ACCOUNTS_LIST_FILE]))
    /\ late_confirmations' = Rederived(load_from_file(files[LATE_CONFIRMATIONS_LIST_FILE]))
    /\ pc' = "report"
    /\ UNCHANGED <<mode, disk, search_response, active_plcs, loopVars, callVars, today, files0,
                   runHistory, writes, fatal>>

\* __main__, not ANALYSE_PLC_LIST: load the two checkpoints
LoadLate ==
    /\ pc = "filings"
    /\ ~ANALYSE_PLC_LIST
    /\ late_accounts' = load_from_file(files[LATE_ACCOUNTS_LIST_FILE])
    /\ late_confirmations' = load_from_file(files[LATE_CONFIRMATIONS_LIST_FILE])
    /\ pc' = "report"
    /\ UNCHANGED <<mode, disk, search_response, active_plcs, loopVars, callVars, today, files0, runHistory,
                   writes, fatal>>

\* ------------------------------------------------------------- create_html
RECURSIVE Flatten(_)
\* [item for sublist in issuers for item in sublist]
Flatten(lists) ==
    IF lists = <<>> THEN <<>> ELSE Head(lists) \o Flatten(Tail(lists))

\* str.lower() of the names that occur
Lower(str) ==
    CASE str = "Foo PLC" -> "foo plc"
      [] str = "Bar PLC" -> "bar plc"
      [] str = "Baz PLC" -> "baz plc"
      [] str = "Baz  PLC" -> "baz  plc"
      [] str = "Qux PLC" -> "qux plc"
      [] str = "Quux PLC" -> "quux plc"
      [] OTHER -> str

\* a membership test that ignores case
NameInIssuers_IgnoreCase(name, flat) == \E k \in 1..Len(flat) : Lower(flat[k]) = Lower(name)

\* company.name in issuers
NameInIssuers(name, flat) == \E k \in 1..Len(flat) : flat[k] = name

\* create_html(late_plcs, issuers, html_export_file, number_of_active_plcs):
\* the rows of the document, the highlighting and the two totals
create_html(late_plcs, issuers, number_of_active_plcs) ==
    [written |-> TRUE,
     rows |-> [k \in 1..Len(late_plcs) |->
                 [company |-> late_plcs[k],
                  highlighted |-> NameInIssuers(late_plcs[k].name, Flatten(issuers))]],
     number_of_late_plcs |-> Len(late_plcs),
     number_of_active_plcs |-> number_of_active_plcs]

\* __main__: log the totals and render the two reports
Report ==
    /\ pc = "report"
    /\ IF HasLen(late_accounts) /\ HasLen(late_confirmations) /\ HasLen(active_plcs)
       THEN /\ html' = [html EXCEPT
                  ![ACCOUNTS_HTML_EXPORT_FILE] =
                      create_html(late_accounts.v, listed_companies, Len(active_plcs.v)),
                  ![CONFIRMATIONS_HTML_EXPORT_FILE] =
                      create_html(late_confirmations.v, listed_companies, Len(active_plcs.v))]
            /\ writes' = writes \o <<ACCOUNTS_HTML_EXPORT_FILE, CONFIRMATIONS_HTML_EXPORT_FILE>>
            /\ pc' = "done"
            /\ UNCHANGED fatal
       ELSE /\ Crash("TypeError")
            /\ UNCHANGED <<html, writes>>
    /\ UNCHANGED <<mode, files, mainVars, loopVars, callVars, today, files0, runHistory>>

Next ==
    \/ GeneratePlcList
    \/ SearchConnectionError
    \/ LoadPlcList
    \/ AnalyseBegin
    \/ LoopNext
    \/ ProfileRequest
    \/ ProfileConnectionError
    \/ Sleep
    \/ RetriesExhausted
    \/ Classify
    \/ AnalyseDone
    \/ LoadLate
    \/ Report

Spec == Init /\ [][Next]_vars

TypeOK ==
    /\ pc \in {"population", "filings", "loop", "request", "sleep", "classify", "report"} \cup Ended
    /\ retries \in 0..MAX_API_RETRIES
    /\ reqs \in 0..MAX_API_RETRIES
    /\ waits \in 0..MAX_API_RETRIES

\* ------------------------------------------------------------- properties
\* the company whose profile is being fetched
CurrentPlc == active_plcs.v[i]

\* no record of the list is about the company
NoRecordFor(list, plc) == \A k \in 1..Len(list) : list[k].link # CompanyLink(plc)

\* the late checkpoints are as they were when the run started
LateFilesUntouched ==
    /\ files[LATE_ACCOUNTS_LIST_FILE] = files0[LATE_ACCOUNTS_LIST_FILE]
    /\ files[LATE_CONFIRMATIONS_LIST_FILE] = files0[LATE_CONFIRMATIONS_LIST_FILE]
    /\ \A k \in 1..Len(writes) :
          writes[k] \notin {LATE_ACCOUNTS_LIST_FILE, LATE_CONFIRMATIONS_LIST_FILE}

\* no report has been rendered
NoReportYet ==
    /\ \A h \in HtmlNames : html[h] = NoReport
    /\ \A k \in 1..Len(writes) : writes[k] \notin HtmlNames

\* a process that has ended takes no further step
EndIsFinal == pc \notin Ended

\* C1: when every response of a get_company_profile call is a 429, the call
\* makes exactly 50 requests, sleeps 30 s after each of them, and then the
\* process exits; the company gets no record and the late checkpoints are
\* not written.
C1_AllThrottled ==
    /\ (seen = {429}) => reqs <= 50
    /\ (seen = {429} /\ pc \in Ended /\ fatal # "ConnectionError") =>
          /\ pc = "exit"
          /\ fatal = "retries"
          /\ reqs = 50
          /\ waits = 50
          /\ slept = 50 * 30
          /\ i \notin {fetched[k] : k \in 1..Len(fetched)}
          /\ NoRecordFor(late_accounts_list, CurrentPlc)
          /\ NoRecordFor(late_confirmations_list, CurrentPlc)
          /\ LateFilesUntouched
          /\ NoReportYet

C1_Witness ==
    /\ pc = "exit"
    /\ fatal = "retries"
    /\ seen = {429}
    /\ i = 2
    /\ Len(late_accounts_list) = 1

\* the last request of the call got a response
GotResponse == fatal # "ConnectionError"

C2_State ==
    /\ reqs <= 50
    /\ retries <= 50
    /\ (pc \in {"request", "sleep"}) => (reqs = retries /\ seen \subseteq {429, 502})
    /\ (pc = "classify") =>
          /\ response.status_code = 200
          /\ AccountsInText(response.body)
          /\ BodyIsJson(response.body)
          /\ profile = response.body
          /\ retries < 50
          /\ reqs = retries + 1
    /\ (reqs > 0) => pc \in {"request", "sleep", "classify"} \cup Ended

C2_Step ==
    (reqs' = reqs + 1 /\ GotResponse') =>
        /\ pc = "request"
        /\ reqs < 50
        /\ (response'.status_code \in {429, 502}) => (pc' = "sleep" /\ retries' = retries + 1)
        /\ (response'.status_code = 200 /\ AccountsInText(response'.body)
              /\ BodyIsJson(response'.body)) => (pc' = "classify" /\ profile' = response'.body)
        /\ pc' \in {"sleep", "classify", "exit", "crash"}

\* C2: a get_company_profile call makes at most 50 requests; 429 and 502
\* responses each count once against that bound; the call ends either by
\* returning the parsed body of a 200 response whose text contains
\* "accounts" (after any number k < 50 of throttled responses) or by ending
\* the process.
C2_CallEnds == [](C2_State) /\ [][C2_Step]_vars

C2_Witness ==
    /\ pc = "classify"
    /\ seen = {200, 429, 502}
    /\ retries = 49

\* the last response is a 200 whose text lacks "accounts"
UnexpectedFormat == response.status_code = 200 /\ ~AccountsInText(response.body)

C3_State ==
    UnexpectedFormat =>
        /\ pc = "exit"
        /\ fatal = "unexpected response format"
        /\ requested_for = i
        /\ reqs = retries + 1
        /\ waits = retries
        /\ slept = retries * 30
        /\ LateFilesUntouched
        /\ NoReportYet

\* C3: a 200 profile response whose text lacks "accounts" ends the process
\* in that very step, after any number of throttled responses: no sleep
\* follows it and no request follows it, for this company or a later one.
C3_FormatFatal == [](C3_State) /\ [][EndIsFinal]_vars

C3_Witness ==
    /\ UnexpectedFormat
    /\ pc = "exit"
    /\ retries > 0
    /\ i = 1
    /\ Len(active_plcs.v) = 2

\* the last response has a status other than 200, 429 and 502
OtherStatus == response.status_code \notin {0, 200, 429, 502}

C4_State ==
    OtherStatus =>
        /\ pc = "exit"
        /\ fatal = "status"
        /\ requested_for = i
        /\ reqs = retries + 1
        /\ waits = retries
        /\ slept = retries * 30
        /\ LateFilesUntouched
        /\ NoReportYet

\* C4: a profile response with a status other than 200, 429 and 502 ends
\* the process in that very step, without a retry or a sleep, whether it is
\* the company's first response or follows throttled ones.
C4_StatusFatal == [](C4_State) /\ [][EndIsFinal]_vars

C4_Witness ==
    /\ OtherStatus
    /\ pc = "exit"
    /\ retries > 0
    /\ seen = {404, 429, 502}

C4_WitnessFirst ==
    /\ OtherStatus
    /\ pc = "exit"
    /\ reqs = 1

\* the search request got a response with a status other than 200
SearchFailed == search_response.status_code \notin {0, 200}

\* C5: after a non-200 search response in a fresh-population run no profile
\* request is made, the late-accounts and late-confirmations checkpoints are
\* not written, no report is rendered and the run does not reach its end.
C5_NoDataNoOutput ==
    SearchFailed =>
        /\ GENERATE_PLC_LIST
        /\ ~profile_requested
        /\ reqs = 0
        /\ fetched = <<>>
        /\ LateFilesUntouched
        /\ NoReportYet
        /\ pc # "done"

C5_Witness ==
    /\ SearchFailed
    /\ ~ANALYSE_PLC_LIST
    /\ IsList(late_accounts)
    /\ Len(late_accounts.v) = 1
    /\ pc = "crash"

C5_WitnessAnalyse ==
    /\ SearchFailed
    /\ ANALYSE_PLC_LIST
    /\ pc = "crash"

\* C6: a non-200 search response ends the process at once: no later step of
\* the pipeline runs and the population checkpoint keeps the contents it had
\* when the run started.
C6_SearchFatal ==
    SearchFailed =>
        /\ pc \in Ended
        /\ writes = <<>>
        /\ files[PLC_LIST_FILE] = files0[PLC_LIST_FILE]

\* the objects of a checkpoint, in file order; none if the file is missing
\* or is not valid JSON
CheckpointRecords(file) ==
    IF file.exists /\ json_valid(file.text) /\ file.text # <<TokNull>>
    THEN json_load(file.text).v
    ELSE <<>>

\* the records of a rendered document, in row order
Handed(h) == [k \in 1..Len(html[h].rows) |-> html[h].rows[k].company]

\* C7: with ANALYSE_PLC_LIST off no profile request is made, the two late
\* checkpoints are not written, and the records rendered are exactly the
\* records of the checkpoints, days_late as stored.
C7_CachedFilings ==
    (~ANALYSE_PLC_LIST) =>
        /\ ~profile_requested
        /\ reqs = 0
        /\ LateFilesUntouched
        /\ (pc \in {"report", "done"}) =>
              /\ late_accounts = PyList(CheckpointRecords(files[LATE_ACCOUNTS_LIST_FILE]))
              /\ late_confirmations =
                     PyList(CheckpointRecords(files[LATE_CONFIRMATIONS_LIST_FILE]))
        /\ (pc = "done") =>
              /\ html[ACCOUNTS_HTML_EXPORT_FILE].written
              /\ html[CONFIRMATIONS_HTML_EXPORT_FILE].written
              /\ Handed(ACCOUNTS_HTML_EXPORT_FILE) =
                     CheckpointRecords(files[LATE_ACCOUNTS_LIST_FILE])
              /\ Handed(CONFIRMATIONS_HTML_EXPORT_FILE) =
                     CheckpointRecords(files[LATE_CONFIRMATIONS_LIST_FILE])

\* a rendered accounts report whose first row carries a days_late that is
\* not the difference between the run date and its due date
C7_Witness ==
    /\ ~ANALYSE_PLC_LIST
    /\ pc = "done"
    /\ Len(html[ACCOUNTS_HTML_EXPORT_FILE].rows) = 1
    /\ LET row == html[ACCOUNTS_HTML_EXPORT_FILE].rows[1].company
       IN  row.days_late # find_days_late(row.due_date, today)

\* the file has been written by this run
Written(f) == \E k \in 1..Len(writes) : writes[k] = f

\* C8: with GENERATE_PLC_LIST on, one search request is made and its result
\* is written to the population checkpoint before any profile request; with
\* it off, no search request is made, the population checkpoint is not
\* written and the population is the contents of the checkpoint.  Either
\* way for both settings of ANALYSE_PLC_LIST.
C8_PopulationSwitch ==
    /\ GENERATE_PLC_LIST =>
          /\ search_reqs = (IF pc = "population" THEN 0 ELSE 1)
          /\ (pc \notin {"population", "crash"} \/ IsList(active_plcs) \/ SearchFailed) =>
                /\ active_plcs = (IF search_response.status_code # 200 THEN None
                                  ELSE IF search_response.body = "items"
                                       THEN PyList(search_response.items)
                                       ELSE PyList(<<>>))
                /\ writes # <<>>
                /\ writes[1] = PLC_LIST_FILE
                /\ files[PLC_LIST_FILE].exists
                /\ json_valid(files[PLC_LIST_FILE].text)
                /\ json_load(files[PLC_LIST_FILE].text) = active_plcs
          /\ profile_requested => (writes # <<>> /\ writes[1] = PLC_LIST_FILE)
    /\ (~GENERATE_PLC_LIST) =>
          /\ search_reqs = 0
          /\ search_response = NoSearchResponse
          /\ ~Written(PLC_LIST_FILE)
          /\ files[PLC_LIST_FILE] = files0[PLC_LIST_FILE]
          /\ (pc # "population") =>
                active_plcs = (IF files[PLC_LIST_FILE] = FileOf(<<TokNull>>) THEN None
                               ELSE PyList(CheckpointRecords(files[PLC_LIST_FILE])))

C8_Witness ==
    /\ GENERATE_PLC_LIST
    /\ ANALYSE_PLC_LIST
    /\ profile_requested
    /\ files0[PLC_LIST_FILE].exists
    /\ files[PLC_LIST_FILE] # files0[PLC_LIST_FILE]
    /\ Len(active_plcs.v) = 2

C8_WitnessCached ==
    /\ ~GENERATE_PLC_LIST
    /\ pc = "done"
    /\ Len(active_plcs.v) = 2

\* the positions 1 .. n in order
UpTo(n) == [k \in 1..n |-> k]

C9_State ==
    ANALYSE_PLC_LIST =>
        /\ fetched = UpTo(Len(fetched))
        /\ (pc \in {"loop", "request", "sleep"}) => Len(fetched) = i - 1
        /\ (pc = "classify") => Len(fetched) = i
        /\ profile_requested => requested_for \in {Len(fetched), Len(fetched) + 1}
        /\ (Written(LATE_ACCOUNTS_LIST_FILE) \/ Written(LATE_CONFIRMATIONS_LIST_FILE)
              \/ pc = "done") =>
              /\ fetched = UpTo(Len(active_plcs.v))
              /\ i = Len(active_plcs.v) + 1
              /\ Written(LATE_ACCOUNTS_LIST_FILE)
              /\ Written(LATE_CONFIRMATIONS_LIST_FILE)

C9_Step ==
    /\ requested_for' >= requested_for
    /\ (reqs' = reqs + 1) => (requested_for' = i /\ i' = i /\ i = Len(fetched) + 1)
    /\ (fetched' # fetched) => (reqs' = reqs + 1 /\ fetched' = Append(fetched, i))

\* C9: a fresh-filings run that reaches its end has fetched the profile of
\* every company of the population exactly once, in population order, every
\* request for a company coming before any request for the next one, and it
\* has written the two late checkpoints only after the last company.
C9_EveryCompanyInOrder == [](C9_State) /\ [][C9_Step]_vars

C9_Witness ==
    /\ ANALYSE_PLC_LIST
    /\ ~GENERATE_PLC_LIST
    /\ pc = "done"
    /\ fetched = <<1, 2>>

C9_WitnessFresh ==
    /\ ANALYSE_PLC_LIST
    /\ GENERATE_PLC_LIST
    /\ pc = "done"
    /\ fetched = <<1, 2>>

\* the record is about the company
RecordOf(rec, plc) == rec.name = plc.company_name /\ rec.link = CompanyLink(plc)

RECURSIVE IsSubsequence(_, _)
\* the records are about companies of the population, in population order,
\* no company twice
IsSubsequence(list, pop) ==
    IF list = <<>> THEN TRUE
    ELSE IF pop = <<>> THEN FALSE
    ELSE IF RecordOf(Head(list), Head(pop)) THEN IsSubsequence(Tail(list), Tail(pop))
    ELSE IsSubsequence(list, Tail(pop))

\* C10: the two collections get_late_plcs builds and returns are
\* subsequences of the population: records in enumeration order, at most one
\* per company, whatever their days_late.
C10_EnumerationOrder ==
    (ANALYSE_PLC_LIST /\ IsList(active_plcs)) =>
        /\ IsSubsequence(late_accounts_list, active_plcs.v)
        /\ IsSubsequence(late_confirmations_list, active_plcs.v)
        /\ IsList(late_accounts) =>
              (late_accounts.v = late_accounts_list
                 /\ CheckpointRecords(files[LATE_ACCOUNTS_LIST_FILE]) = late_accounts_list)
        /\ IsList(late_confirmations) =>
              (late_confirmations.v = late_confirmations_list
                 /\ CheckpointRecords(files[LATE_CONFIRMATIONS_LIST_FILE])
                        = late_confirmations_list)

\* two late-accounts records returned, the less late one first
C10_Witness ==
    /\ ANALYSE_PLC_LIST
    /\ pc = "done"
    /\ Len(late_accounts.v) = 2
    /\ late_accounts.v[1].days_late < late_accounts.v[2].days_late

\* the positions of the list's records about the company
RecordsFor(list, plc) == {k \in 1..Len(list) : list[k].link = CompanyLink(plc)}

\* the list is the old one, followed by the records in more
Extends(list, old, more) == list = old \o more

C11_Step ==
    (pc = "classify" /\ pc' # "classify") =>
        LET p == BodyJson(profile)
            plc == CurrentPlc
            hasAccounts == "accounts" \in DOMAIN p
            accountsDue ==
                /\ hasAccounts
                /\ "next_accounts" \in DOMAIN p.accounts
                /\ p.accounts.next_accounts.overdue
            confirmationDue ==
                /\ "confirmation_statement" \in DOMAIN p
                /\ p.confirmation_statement.overdue
        IN  /\ Cardinality(RecordsFor(late_accounts_list', plc)) = (IF accountsDue THEN 1 ELSE 0)
            /\ hasAccounts =>
                  /\ Cardinality(RecordsFor(late_confirmations_list', plc))
                        = (IF confirmationDue THEN 1 ELSE 0)
                  /\ Extends(late_accounts_list', late_accounts_list,
                             IF accountsDue
                             THEN <<[name |-> plc.company_name, link |-> CompanyLink(plc),
                                     due_date |-> p.accounts.next_accounts.due_on,
                                     days_late |-> ToOrdinal(today)
                                                     - ToOrdinal(p.accounts.next_accounts.due_on)]>>
                             ELSE <<>>)
                  /\ Extends(late_confirmations_list', late_confirmations_list,
                             IF confirmationDue
                             THEN <<[name |-> plc.company_name, link |-> CompanyLink(plc),
                                     due_date |-> p.confirmation_statement.next_due,
                                     days_late |-> ToOrdinal(today)
                                                     - ToOrdinal(p.confirmation_statement.next_due)]>>
                             ELSE <<>>)
                  /\ pc' = "loop"
                  /\ i' = i + 1
                  /\ fatal' = ""

C11_WitnessBoth ==
    /\ pc = "request"
    /\ i = 2
    /\ Len(late_accounts_list) = 1
    /\ Len(late_confirmations_list) = 1

\* no record for a company, the run completed
C11_WitnessNone ==
    /\ pc = "done"
    /\ fetched = <<1, 2>>
    /\ late_accounts.v = <<>>
    /\ late_confirmations.v = <<>>

\* the run has ended inside get_company_profile: exit(1), or an exception
\* raised by the request or by response.json()
FetchFatal ==
    \/ pc = "exit"
    \/ pc = "crash" /\ profile_requested /\ fatal \in {"ConnectionError", "JSONDecodeError"}

\* C12: when a fresh-filings run ends inside get_company_profile for the
\* k-th company, no report has been rendered, the two late checkpoints are
\* the files the run found (the records gathered for the first k-1 companies
\* are in no file), and the population checkpoint is what the population
\* stage wrote, or the file it loaded.
C12_AbortLosesResults ==
    (ANALYSE_PLC_LIST /\ FetchFatal) =>
        /\ requested_for = i
        /\ i \in 1..Len(active_plcs.v)
        /\ fetched = UpTo(i - 1)
        /\ NoReportYet
        /\ LateFilesUntouched
        /\ late_accounts = Unbound
        /\ late_confirmations = Unbound
        /\ IF GENERATE_PLC_LIST
           THEN /\ files[PLC_LIST_FILE] = FileOf(json_dump(active_plcs))
                /\ writes = <<PLC_LIST_FILE>>
           ELSE /\ files[PLC_LIST_FILE] = files0[PLC_LIST_FILE]
                /\ writes = <<>>
                /\ active_plcs = load_from_file(files0[PLC_LIST_FILE])

\* the second of two companies is fatal, a record gathered for the first is
\* lost, and the late-accounts checkpoint of an earlier run stays
C12_Witness ==
    /\ ANALYSE_PLC_LIST
    /\ GENERATE_PLC_LIST
    /\ pc = "exit"
    /\ i = 2
    /\ Len(active_plcs.v) = 2
    /\ Len(late_accounts_list) = 1
    /\ files0[LATE_ACCOUNTS_LIST_FILE].exists
    /\ files0[PLC_LIST_FILE] # files[PLC_LIST_FILE]

C12_WitnessCached ==
    /\ ANALYSE_PLC_LIST
    /\ ~GENERATE_PLC_LIST
    /\ pc = "exit"
    /\ fatal = "retries"
    /\ i = 2
    /\ Len(late_confirmations_list) = 1

\* ------------------------------------------- checkpoint round trip, alone
\* the longest collection saved
MaxLen == 2

\* records the program saves: late filing records (late, due today, and
\* not yet due) and items of the population
SavedRecords ==
    {LateRecord(CompanyRef(n), due, RunDay) :
        n \in 1..MaxPop, due \in {AccountsDue, ConfirmationDue, RunDay, FutureDue}}
    \cup {CompanyRef(n) : n \in 1..MaxPop}

RECURSIVE SeqsUpTo(_, _)
\* the sequences of length <= n of elements of S
SeqsUpTo(S, n) ==
    IF n = 0 THEN {<<>>}
    ELSE LET shorter == SeqsUpTo(S, n - 1)
         IN  shorter \cup {Append(q, e) : q \in shorter, e \in S}

Collections == SeqsUpTo(SavedRecords, MaxLen)

\* a run that has a collection in hand and is about to save it
InitRoundTrip ==
    /\ GENERATE_PLC_LIST = FALSE
    /\ ANALYSE_PLC_LIST = TRUE
    /\ files = [f \in FileNames |-> NoFile]
    /\ html = [h \in HtmlNames |-> NoReport]
    /\ today = RunDay
    /\ files0 = files
    /\ pc = "save"
    /\ late_accounts_list \in Collections
    /\ late_accounts = PyList(late_accounts_list)
    /\ search_response = NoSearchResponse
    /\ active_plcs = PyList(<<>>)
    /\ late_confirmations = PyList(<<>>)
    /\ late_confirmations_list = <<>>
    /\ i = 1
    /\ retries = 0
    /\ response = NoResponse
    /\ profile = 0
    /\ reqs = 0
    /\ waits = 0
    /\ slept = 0
    /\ seen = {}
    /\ search_reqs = 0
    /\ profile_requested = FALSE
    /\ requested_for = 0
    /\ fetched = <<>>
    /\ writes = <<>>
    /\ fatal = ""

\* save_to_file(late_accounts, LATE_ACCOUNTS_LIST_FILE)
SaveCollection ==
    /\ pc \in {"save", "save_again"}
    /\ files' = save_to_file(files, late_accounts, LATE_ACCOUNTS_LIST_FILE)
    /\ writes' = Append(writes, LATE_ACCOUNTS_LIST_FILE)
    /\ pc' = (IF pc = "save" THEN "load" ELSE "round_trip_done")
    /\ UNCHANGED <<mode, html, search_response, active_plcs, late_accounts, late_confirmations,
                   loopVars, callVars, today, files0, runHistory, fatal>>

\* the next run: late_accounts = load_from_file(LATE_ACCOUNTS_LIST_FILE)
LoadCollection ==
    /\ pc = "load"
    /\ files0' = files
    /\ late_accounts' = load_from_file(files[LATE_ACCOUNTS_LIST_FILE])
    /\ pc' = "save_again"
    /\ UNCHANGED <<mode, disk, search_response, active_plcs, late_confirmations,
                   loopVars, callVars, today, runHistory, writes, fatal>>

NextRoundTrip == SaveCollection \/ LoadCollection

SpecRoundTrip == InitRoundTrip /\ [][NextRoundTrip]_vars

\* C13: a collection saved with save_to_file and loaded with load_from_file
\* comes back equal, records in the same order, the empty collection
\* included; saving what was loaded leaves the checkpoint as it was.
C13_RoundTrip ==
    /\ (pc \in {"save_again", "round_trip_done"}) =>
          /\ late_accounts = PyList(late_accounts_list)
          /\ \A k \in 1..Len(late_accounts_list) : late_accounts.v[k] = late_accounts_list[k]
    /\ (pc = "round_trip_done") =>
          /\ Len(writes) = 2
          /\ files = files0

\* two different records, the first with a negative days_late, made the trip
C13_Witness ==
    /\ pc = "round_trip_done"
    /\ Len(late_accounts_list) = 2
    /\ late_accounts_list[1] # late_accounts_list[2]
    /\ "days_late" \in DOMAIN late_accounts_list[1]
    /\ late_accounts_list[1].days_late < 0

C13_WitnessEmpty ==
    /\ pc = "round_trip_done"
    /\ late_accounts_list = <<>>
    /\ files[LATE_ACCOUNTS_LIST_FILE].exists

\* the file is missing, or its text is not valid JSON
Unreadable(file) == ~file.exists \/ ~json_valid(file.text)

\* the population checkpoint of a cached-population run cannot be read
NoPopulationToLoad == ~GENERATE_PLC_LIST /\ Unreadable(files0[PLC_LIST_FILE])

\* the stages of __main__, in the order it passes them
Stage(at) ==
    CASE at = "population" -> 0
      [] at = "filings" -> 1
      [] at = "loop" -> 2
      [] at = "report" -> 3
      [] at = "done" -> 4
      [] OTHER -> 5

C14_State ==
    /\ NoPopulationToLoad =>
          /\ Stage(pc) <= 4
          /\ (pc # "done") => ENABLED Next
    /\ (NoPopulationToLoad /\ pc # "population") =>
          /\ active_plcs = PyList(<<>>)
          /\ ~profile_requested
          /\ fetched = <<>>
          /\ pc \notin {"exit", "crash"}
          /\ fatal = ""
    /\ (NoPopulationToLoad /\ pc = "done") =>
          /\ \A h \in HtmlNames :
                /\ html[h].written
                /\ html[h].number_of_active_plcs = 0
          /\ ANALYSE_PLC_LIST =>
                /\ \A h \in HtmlNames : html[h].rows = <<>>
                /\ files[LATE_ACCOUNTS_LIST_FILE] = FileOf(<<TokOpen, TokClose>>)
                /\ files[LATE_CONFIRMATIONS_LIST_FILE] = FileOf(<<TokOpen, TokClose>>)
    /\ (~ANALYSE_PLC_LIST /\ late_accounts # Unbound) =>
          /\ Unreadable(files0[LATE_ACCOUNTS_LIST_FILE]) => late_accounts = PyList(<<>>)
          /\ Unreadable(files0[LATE_CONFIRMATIONS_LIST_FILE]) => late_confirmations = PyList(<<>>)

\* every step of such a run takes it to a later stage
C14_Step == NoPopulationToLoad => Stage(pc') > Stage(pc)

\* C14: a checkpoint that is missing or is not valid JSON loads as the
\* empty collection and ends nothing: a cached-population run whose
\* population checkpoint cannot be read goes on with no company, makes no
\* profile request, and runs to its end with both reports rendered (each
\* stage but the last has a next step, and every step leads to a later stage).
C14_UnreadableIsEmpty == [](C14_State) /\ [][C14_Step]_vars

\* a fresh-filings run on a disk without checkpoints has run to its end
C14_Witness ==
    /\ NoPopulationToLoad
    /\ ~files0[PLC_LIST_FILE].exists
    /\ ANALYSE_PLC_LIST
    /\ pc = "done"
    /\ html[ACCOUNTS_HTML_EXPORT_FILE].written

\* a cached run on a disk of checkpoints that are not valid JSON
C14_WitnessInvalid ==
    /\ NoPopulationToLoad
    /\ files0[PLC_LIST_FILE].exists
    /\ ~ANALYSE_PLC_LIST
    /\ files0[LATE_ACCOUNTS_LIST_FILE].exists
    /\ pc = "done"

\* what the run hands to save_to_file for a checkpoint
Produced(f) ==
    CASE f = PLC_LIST_FILE -> active_plcs
      [] f = LATE_ACCOUNTS_LIST_FILE -> PyList(late_accounts_list)
      [] f = LATE_CONFIRMATIONS_LIST_FILE -> PyList(late_confirmations_list)

\* the elements of a sequence
Range(q) == {q[k] : k \in 1..Len(q)}

\* C15: at every point of a run, whatever the disk it started on, a
\* checkpoint the run has written holds exactly the collection the run
\* produced for it (for the late checkpoints: no record of the file's
\* earlier contents), and a checkpoint the run has not written, read or
\* not, is the file the run found; no checkpoint is written twice.
C15_OverwriteOrRead ==
    \A f \in FileNames :
        /\ Cardinality({k \in 1..Len(writes) : writes[k] = f}) <= 1
        /\ IF Written(f)
           THEN /\ files[f] = FileOf(json_dump(Produced(f)))
                /\ load_from_file(files[f]) = Produced(f)
                /\ (f # PLC_LIST_FILE) =>
                      Range(CheckpointRecords(files[f])) \cap Range(CheckpointRecords(files0[f])) = {}
           ELSE files[f] = files0[f]

\* a run that started on the checkpoints of an earlier run has replaced all
\* three, the late-accounts one by two records
C15_Witness ==
    /\ pc = "done"
    /\ \A f \in FileNames : Written(f) /\ CheckpointRecords(files0[f]) # <<>>
    /\ Len(CheckpointRecords(files[LATE_ACCOUNTS_LIST_FILE])) = 2
    /\ files[PLC_LIST_FILE] # files0[PLC_LIST_FILE]

\* a run that only read the checkpoints of an earlier run
C15_WitnessRead ==
    /\ pc = "done"
    /\ writes = <<ACCOUNTS_HTML_EXPORT_FILE, CONFIRMATIONS_HTML_EXPORT_FILE>>
    /\ Len(html[ACCOUNTS_HTML_EXPORT_FILE].rows) = 1
    /\ Len(active_plcs.v) = 2

\* ------------------------------------------------ find_days_late, alone
\* run dates up to MaxSpan days before the due date are tried, and the clock
\* is followed for twice as many days
MaxSpan == 9

\* due dates at the ends of months and years, in leap and common years
DueDates ==
    {<<2023, 12, 31>>, <<2024, 1, 1>>, <<2024, 2, 20>>, <<2024, 2, 28>>, <<2024, 2, 29>>,
     <<2024, 3, 1>>, <<2023, 2, 28>>, <<2000, 2, 29>>, <<1900, 2, 28>>, <<2100, 3, 1>>}

\* the run dates a due date is first met on
StartDays(due) == {DaysAgo(due, k) : k \in 0..MaxSpan} \cup DueDates

\* the classifier has built the record of one late obligation
InitDays ==
    /\ GENERATE_PLC_LIST = FALSE
    /\ ANALYSE_PLC_LIST = TRUE
    /\ files = [f \in FileNames |-> NoFile]
    /\ html = [h \in HtmlNames |-> NoReport]
    /\ files0 = files
    /\ pc = "classified"
    /\ \E due \in DueDates :
          /\ ValidDate(due)
          /\ today \in {d \in StartDays(due) : ValidDate(d)}
          /\ late_accounts_list = <<LateRecord(CompanyRef(1), due, today)>>
    /\ late_accounts = Unbound
    /\ search_response = NoSearchResponse
    /\ active_plcs = PyList(<<CompanyRef(1)>>)
    /\ late_confirmations = Unbound
    /\ late_confirmations_list = <<>>
    /\ i = 1
    /\ retries = 0
    /\ response = NoResponse
    /\ profile = 0
    /\ reqs = 0
    /\ waits = 0
    /\ slept = 0
    /\ seen = {}
    /\ search_reqs = 0
    /\ profile_requested = FALSE
    /\ requested_for = 0
    /\ fetched = <<>>
    /\ writes = <<>>
    /\ fatal = ""

\* the clock passes midnight
Midnight ==
    /\ pc = "classified"
    /\ Len(late_accounts_list) <= 2 * MaxSpan
    /\ today' = NextDay(today)
    /\ pc' = "clock"
    /\ UNCHANGED <<mode, disk, mainVars, loopVars, callVars, files0, runHistory, writes, fatal>>

\* the same obligation is classified on the new day
ClassifyLate ==
    /\ pc = "clock"
    /\ late_accounts_list' =
          list_append(late_accounts_list,
                      LateRecord(CompanyRef(1), late_accounts_list[1].due_date, today))
    /\ pc' = "classified"
    /\ UNCHANGED <<mode, disk, mainVars, late_confirmations_list, i, profile, callVars,
                   today, files0, runHistory, writes, fatal>>

NextDays == Midnight \/ ClassifyLate

SpecDays == InitDays /\ [][NextDays]_vars

\* is date a earlier than date b
Before(a, b) ==
    \/ a[1] < b[1]
    \/ a[1] = b[1] /\ a[2] < b[2]
    \/ a[1] = b[1] /\ a[2] = b[2] /\ a[3] < b[3]

\* C16: days_late is the number of days from the due date to the run date:
\* k when the due date is k days before the run date (9 for 9 days), 0 on
\* the due date, -k when the run date is k days before the due date, with
\* no clamping; a day later, for the same due date, it is greater by 1.
C16_DayDifference ==
    (pc = "classified") =>
        LET n == Len(late_accounts_list)
            last == late_accounts_list[n]
            due == last.due_date
        IN  /\ \A k \in 0..MaxSpan : (due = DaysAgo(today, k)) => last.days_late = k
            /\ \A k \in 0..MaxSpan : (today = DaysAgo(due, k)) => last.days_late = 0 - k
            /\ (last.days_late < 0) <=> Before(today, due)
            /\ (last.days_late = 0) <=> (today = due)
            /\ \A k \in 1..(n - 1) :
                  /\ late_accounts_list[k + 1].due_date = late_accounts_list[k].due_date
                  /\ late_accounts_list[k + 1].days_late = late_accounts_list[k].days_late + 1

\* the run date has gone from before the due date to the leap day, 9 days
\* after it
C16_Witness ==
    /\ pc = "classified"
    /\ late_accounts_list[1].days_late < 0
    /\ late_accounts_list[1].due_date = <<2024, 2, 20>>
    /\ today = <<2024, 2, 29>>
    /\ late_accounts_list[Len(late_accounts_list)].days_late = 9

\* run date and due date far apart
C16_WitnessFar ==
    /\ pc = "classified"
    /\ Len(late_accounts_list) = 3
    /\ late_accounts_list[3].days_late < 0 - 40000

\* every name of every issuer list
IssuerNames == UNION {Range(listed_companies[j]) : j \in 1..Len(listed_companies)}

\* C17: in a rendered report a row is highlighted iff the record's name is,
\* character for character, an entry of one of the issuer lists, whichever
\* list holds it; "bar plc" is not highlighted although "Bar PLC" is listed.
C17_ExactNameMatch ==
    \A h \in HtmlNames :
        html[h].written =>
            \A k \in 1..Len(html[h].rows) :
                LET row == html[h].rows[k]
                IN  /\ row.highlighted <=> (row.company.name \in IssuerNames)
                    /\ (row.company.name = "bar plc") => ~row.highlighted
                    /\ (row.company.name = "Foo PLC") => row.highlighted

\* a report with a highlighted row for "Foo PLC", an entry of the second
\* list, and a plain row for "bar plc"
C17_Witness ==
    /\ pc = "done"
    /\ "Bar PLC" \in IssuerNames
    /\ "Foo PLC" \in Range(listed_companies[2])
    /\ \E k \in 1..Len(html[ACCOUNTS_HTML_EXPORT_FILE].rows) :
          /\ html[ACCOUNTS_HTML_EXPORT_FILE].rows[k].company.name = "bar plc"
          /\ ~html[ACCOUNTS_HTML_EXPORT_FILE].rows[k].highlighted
    /\ \E k \in 1..Len(html[ACCOUNTS_HTML_EXPORT_FILE].rows) :
          /\ html[ACCOUNTS_HTML_EXPORT_FILE].rows[k].company.name = "Foo PLC"
          /\ html[ACCOUNTS_HTML_EXPORT_FILE].rows[k].highlighted

\* the last response of the call is a 429 or a 502
Throttled == response.status_code \in {429, 502}

C18_State ==
    /\ (pc = "sleep") => (Throttled /\ reqs = retries /\ waits = retries - 1)
    /\ (pc = "request") => (reqs = retries /\ waits = retries)
    /\ (pc = "request" /\ reqs > 0) => Throttled
    /\ (pc = "request" /\ reqs = 0) => (waits = 0 /\ slept = 0)
    /\ (pc = "classify") => (response.status_code = 200 /\ waits = reqs - 1)
    /\ (pc = "exit" /\ fatal = "retries") => (Throttled /\ waits = reqs)
    /\ (pc = "exit" /\ fatal # "retries") => (~Throttled /\ waits = reqs - 1)
    /\ slept = waits * 30

C18_Step ==
    /\ (reqs' = reqs + 1) => (pc = "request" /\ waits' = waits /\ waits = reqs)
    /\ (reqs' = reqs + 1 /\ GotResponse') => (pc' = "sleep" <=> Throttled')
    /\ (pc = "sleep") =>
          (waits' = waits + 1 /\ slept' = slept + 30 /\ reqs' = reqs /\ response' = response
             /\ pc' = "request")
    /\ (waits' > waits \/ slept' > slept) => (pc = "sleep" /\ Throttled)

\* C18: a 429 or 502 profile response is followed by one sleep of 30 s and
\* by nothing else, the 50th included: every request after the first comes
\* after as many sleeps as throttled responses; nothing sleeps before a
\* company's first request or after a 200, and the call sleeps nowhere else.
C18_BackoffOrder == [](C18_State) /\ [][C18_Step]_vars

\* the second company is asked again after a 502, a sleep, a 429 and a sleep
C18_Witness ==
    /\ pc = "request"
    /\ i = 2
    /\ seen = {429, 502}
    /\ reqs = 2
    /\ waits = 2
    /\ slept = 60

\* the 50th throttled response was slept on too
C18_WitnessLast ==
    /\ pc = "exit"
    /\ fatal = "retries"
    /\ waits = 50
    /\ seen = {429, 502}

C19_State ==
    /\ (pc = "request" /\ reqs = 0) => retries = 0
    /\ (pc \in {"request", "sleep"}) => retries = reqs
    /\ (pc = "exit" /\ fatal = "retries") =>
          /\ reqs = 50
          /\ waits = 50
          /\ seen \subseteq {429, 502}

\* a call starts with the counter at zero, whatever the last call left in it
C19_Step == (pc = "loop" /\ pc' = "request") => (retries' = 0 /\ reqs' = 0)

\* C19: every get_company_profile call starts its throttle counter at zero,
\* so the counter of a call counts the throttled responses of that call
\* only, and the run ends on the retry bound only when one call has received
\* 50 throttled responses, however many the calls before it received.
C19_BudgetPerCompany == [](C19_State) /\ [][C19_Step]_vars

\* the run ends on the retry bound in the call for the second company, which
\* has made all of its 50 requests
C19_Witness ==
    /\ pc = "exit"
    /\ fatal = "retries"
    /\ i = 2
    /\ fetched = <<1>>
    /\ reqs = 50
    /\ retries = 50

\* the call for the first company was throttled 49 times; the call for the
\* second is about to start
C19_WitnessEarlier ==
    /\ pc = "loop"
    /\ i = 2
    /\ retries = 49
    /\ Len(active_plcs.v) = 2

\* C20: a profile that get_company_profile returns has the top-level
\* accounts object, so the step for a company ends either with the profile
\* classified or inside get_company_profile, and never with an exception
\* raised by get_late_plcs.
C20_ReturnedIsClassifiable ==
    /\ (pc = "classify") => ("accounts" \in DOMAIN BodyJson(profile))
    /\ fatal # "KeyError"
    /\ (pc = "crash" /\ profile_requested) => fatal \in {"ConnectionError", "JSONDecodeError"}

====
